---------------------------- MODULE Spec2Model ----------------------------
(***************************************************************************)
(* Model of the in-memory index of smallnest/notex, backend/vector.go:     *)
(* VectorStore{cfg, docs, mu} with IngestText/splitText, SimilaritySearch, *)
(* Delete and GetStats, called by concurrent request handlers.             *)
(*                                                                         *)
(* A string is a sequence of runes; a rune is its Unicode code point:      *)
(*   97 'a'   98 'b'   65 'A'   32 ' '   20013 and 35828 are two CJK       *)
(*   ideographs (U+4E2D, U+8BF4); U+8BF4 is one of the questionKeywords.   *)
(***************************************************************************)
EXTENDS Integers, Sequences, FiniteSets, TLC

VARIABLES cfg,    \* vs.cfg: [ChunkSize, ChunkOverlap], fixed at construction
          docs,   \* vs.docs: sequence of [PageContent, source, chunk]
          mu,     \* vs.mu: [writer, readers] of the sync.RWMutex
          pc,     \* per caller: position in the method it is running
          call,   \* per caller: the method and its arguments
          sp,     \* per caller: locals of splitText
          ap,     \* per caller: locals of IngestText's append loop
          ret,    \* per caller: the value the last call returned
          calls,  \* number of calls started so far (bounds the run)
          up,     \* per caller: locals of the upload handler it is serving
          srv     \* the server: rows of the sources table, restore loop position

vars == <<cfg, docs, mu, pc, call, sp, ap, ret, calls, up, srv>>

-----------------------------------------------------------------------------
(* Bounds *)

NumProcs == 2
MaxLen == 5
MaxCalls == 3
MaxCfg == 3

Procs == 1..NumProcs
None == 0

-----------------------------------------------------------------------------
(* Strings *)

Min(a, b) == IF a < b THEN a ELSE b

RECURSIVE StrOfLen(_, _)
StrOfLen(A, n) ==
    IF n = 0 THEN {<<>>}
    ELSE {Append(s, c) : s \in StrOfLen(A, n - 1), c \in A}

StrUpTo(A, n) == UNION {StrOfLen(A, m) : m \in 0..n}

\* unicode.IsSpace restricted to the runes used here
IsSpace(r) == r \in {32, 9, 10, 13}

\* r >= 0x4E00 && r <= 0x9FFF
IsCJK(r) == r >= 19968 /\ r <= 40959

\* strings.Fields: the maximal runs of non-space runes, in order
RECURSIVE FieldsFrom(_, _, _)
FieldsFrom(s, j, cur) ==
    IF j > Len(s)
    THEN IF cur = <<>> THEN <<>> ELSE <<cur>>
    ELSE IF IsSpace(s[j])
         THEN IF cur = <<>> THEN FieldsFrom(s, j + 1, <<>>)
              ELSE <<cur>> \o FieldsFrom(s, j + 1, <<>>)
         ELSE FieldsFrom(s, j + 1, Append(cur, s[j]))

FieldsOrBlank(s) ==
    IF FieldsFrom(s, 1, <<>>) = <<>> THEN <<<<>>>> ELSE FieldsFrom(s, 1, <<>>)
Fields(s) == FieldsFrom(s, 1, <<>>)

RECURSIVE JoinTight(_)
JoinTight(ws) == IF ws = <<>> THEN <<>> ELSE ws[1] \o JoinTight(Tail(ws))

\* strings.Join(ws, " ")
RECURSIVE Join(_)
Join(ws) ==
    IF ws = <<>> THEN <<>>
    ELSE IF Len(ws) = 1 THEN ws[1]
    ELSE ws[1] \o <<32>> \o Join(Tail(ws))

\* units[i:end] for a Go slice expression with 0 <= i <= end <= len
Slice(s, i, end) == SubSeq(s, i + 1, end)

-----------------------------------------------------------------------------
(* splitText *)

DefaultChunkSize == 1000
DefaultChunkOverlap == 200

ResolveSize(size) == IF size <= 0 THEN DefaultChunkSize ELSE size
ResolveOverlapNonPositive(overlap) == IF overlap <= 0 THEN DefaultChunkOverlap ELSE overlap
ResolveOverlap(overlap) == IF overlap < 0 THEN DefaultChunkOverlap ELSE overlap

cjkCount(runes) == Cardinality({j \in 1..Len(runes) : IsCJK(runes[j])})

\* cjkRatio > 0.3, with cjkRatio = cjkCount / len(runes); 0/0 is NaN and
\* NaN > 0.3 is false
UseRunesAtLeast(runes) == Len(runes) > 0 /\ 10 * cjkCount(runes) >= 3 * Len(runes)
UseRunes(runes) == Len(runes) > 0 /\ 10 * cjkCount(runes) > 3 * Len(runes)

\* strings.Split(s, " "): the pieces between single spaces, empty ones included
RECURSIVE SplitFrom(_, _, _)
SplitFrom(s, j, cur) ==
    IF j > Len(s) THEN <<cur>>
    ELSE IF s[j] = 32 THEN <<cur>> \o SplitFrom(s, j + 1, <<>>)
    ELSE SplitFrom(s, j + 1, Append(cur, s[j]))

UnitsBySplit(text) == IF UseRunes(text) THEN text ELSE SplitFrom(text, 1, <<>>)

\* the sequence the windowing loop runs over
Units(text) == IF UseRunes(text) THEN text ELSE Fields(text)

RenderTight(byRune, units, i, end) ==
    IF byRune THEN Slice(units, i, end) ELSE JoinTight(Slice(units, i, end))

\* string(runes[i:end]) or strings.Join(words[i:end], " ")
Render(byRune, units, i, end) ==
    IF byRune THEN Slice(units, i, end) ELSE Join(Slice(units, i, end))

\* the loop's increment, i += (chunkSize - chunkOverlap)
StepNoOverlap(size, overlap) == size
Step(size, overlap) == size - overlap

\* if end >= len(units) { break }
AtEndStrict(end, n) == end > n
AtEnd(end, n) == end >= n

NoSplit == [chunkSize |-> 0, chunkOverlap |-> 0, byRune |-> FALSE,
            units |-> <<>>, i |-> 0, chunks |-> <<>>, over |-> 0]

\* The chunk list of a loop that never ends grows without bound; here it is
\* cut at MaxChunks, more than any loop with a positive step emits, and of the
\* chunks appended beyond the cut only the parity of their number is kept
\* (over), so that an iteration of such a loop is still a step.
MaxChunks == MaxLen + 1

\* IngestText is entered and splitText runs up to its loop
SplitStart(p) ==
    /\ pc[p] = "ingest"
    /\ sp' = [sp EXCEPT ![p] =
                [chunkSize    |-> ResolveSize(cfg.ChunkSize),
                 chunkOverlap |-> ResolveOverlap(cfg.ChunkOverlap),
                 byRune       |-> UseRunes(call[p].content),
                 units        |-> Units(call[p].content),
                 i            |-> 0,
                 chunks       |-> <<>>,
                 over         |-> 0]]
    /\ pc' = [pc EXCEPT ![p] = "split"]
    /\ UNCHANGED <<cfg, docs, mu, call, ap, ret, calls, up, srv>>

\* the loop condition i < len(units) is false: splitText returns chunks
SplitExit(p) ==
    /\ pc[p] = "split"
    /\ ~(sp[p].i < Len(sp[p].units))
    /\ pc' = [pc EXCEPT ![p] = "lock"]
    /\ UNCHANGED <<cfg, docs, mu, call, sp, ap, ret, calls, up, srv>>

\* units[i:end] with i < 0: slice bounds out of range
SplitPanic(p) ==
    /\ pc[p] = "split"
    /\ sp[p].i < Len(sp[p].units)
    /\ sp[p].i < 0
    /\ pc' = [pc EXCEPT ![p] = "panic"]
    /\ UNCHANGED <<cfg, docs, mu, call, sp, ap, ret, calls, up, srv>>

\* one iteration of the loop body
SplitEmit(p) ==
    /\ pc[p] = "split"
    /\ sp[p].i < Len(sp[p].units)
    /\ sp[p].i >= 0
    /\ LET s     == sp[p]
           end   == Min(s.i + s.chunkSize, Len(s.units))
           chunk == Render(s.byRune, s.units, s.i, end)
           full  == Len(s.chunks) >= MaxChunks
           out   == IF full THEN s.chunks ELSE Append(s.chunks, chunk)
           over  == IF full THEN 1 - s.over ELSE s.over
       IN IF AtEnd(end, Len(s.units))
          THEN /\ sp' = [sp EXCEPT ![p].chunks = out, ![p].over = over]
               /\ pc' = [pc EXCEPT ![p] = "lock"]
          ELSE /\ sp' = [sp EXCEPT ![p].chunks = out, ![p].over = over,
                                   ![p].i = s.i + Step(s.chunkSize, s.chunkOverlap)]
               /\ pc' = pc
    /\ UNCHANGED <<cfg, docs, mu, call, ap, ret, calls, up, srv>>

-----------------------------------------------------------------------------
(* vs.mu, a sync.RWMutex *)

\* Lock waits until no writer and no reader holds the mutex
CanLockAlways == TRUE
CanLockIgnoringReaders == mu.writer = None
CanLock == mu.writer = None /\ mu.readers = {}

\* RLock waits until no writer holds the mutex
CanRLockAlways == TRUE
CanRLock == mu.writer = None

Locked(p) == [mu EXCEPT !.writer = p]
StillLocked(p) == mu
Unlocked(p) == [mu EXCEPT !.writer = None]
RLocked(p) == [mu EXCEPT !.readers = @ \cup {p}]
RUnlocked(p) == [mu EXCEPT !.readers = @ \ {p}]

-----------------------------------------------------------------------------
(* IngestText after splitText has returned *)

NoCall == [op |-> "none", sourceName |-> "", content |-> <<>>,
           query |-> <<>>, numDocs |-> 0]
NoRet == [op |-> "none", err |-> "nil", docs |-> <<>>, total |-> 0]

Document(chunk, sourceName, i) ==
    [PageContent |-> chunk, source |-> sourceName, chunk |-> i]

NoAppend == [i |-> 0, docs |-> <<>>]

\* vs.mu.Lock()
IngestLock(p) ==
    /\ pc[p] = "lock"
    /\ CanLock
    /\ mu' = Locked(p)
    /\ ap' = [ap EXCEPT ![p] = NoAppend]
    /\ pc' = [pc EXCEPT ![p] = "append"]
    /\ UNCHANGED <<cfg, docs, call, sp, ret, calls, up, srv>>

\* append(vs.docs, doc)
AppendDocFront(d, doc) == <<doc>> \o d
AppendDoc(d, doc) == Append(d, doc)

\* one iteration of "for i, chunk := range chunks": vs.docs is read ...
IngestRead(p) ==
    /\ pc[p] = "append"
    /\ ap[p].i < Len(sp[p].chunks)
    /\ ap' = [ap EXCEPT ![p].docs = docs]
    /\ pc' = [pc EXCEPT ![p] = "store"]
    /\ UNCHANGED <<cfg, docs, mu, call, sp, ret, calls, up, srv>>

\* ... and vs.docs = append(vs.docs, doc) is stored
IngestStore(p) ==
    /\ pc[p] = "store"
    /\ docs' = AppendDoc(ap[p].docs,
                         Document(sp[p].chunks[ap[p].i + 1], call[p].sourceName, ap[p].i))
    /\ ap' = [ap EXCEPT ![p] = [i |-> ap[p].i + 1, docs |-> <<>>]]
    /\ pc' = [pc EXCEPT ![p] = "append"]
    /\ UNCHANGED <<cfg, mu, call, sp, ret, calls, up, srv>>

\* return nil, and the deferred vs.mu.Unlock()
IngestReturn(p) ==
    /\ pc[p] = "append"
    /\ ap[p].i = Len(sp[p].chunks)
    /\ mu' = Unlocked(p)
    /\ ret' = [ret EXCEPT ![p] = [NoRet EXCEPT !.op = "ingest"]]
    /\ pc' = [pc EXCEPT ![p] = "idle"]
    /\ UNCHANGED <<cfg, docs, call, sp, ap, calls, up, srv>>

\* a caller starts IngestText(ctx, sourceName, content)
CallIngest(p, tags, texts, maxCalls) ==
    /\ pc[p] = "idle"
    /\ calls < maxCalls
    /\ \E t \in tags, c \in texts :
         call' = [call EXCEPT ![p] = [NoCall EXCEPT !.op = "ingest",
                                                    !.sourceName = t, !.content = c]]
    /\ calls' = calls + 1
    /\ sp' = [sp EXCEPT ![p] = NoSplit]
    /\ ap' = [ap EXCEPT ![p] = NoAppend]
    /\ pc' = [pc EXCEPT ![p] = "ingest"]
    /\ UNCHANGED <<cfg, docs, mu, ret, up, srv>>

-----------------------------------------------------------------------------
(* Delete *)

\* the loop that keeps the documents of other sources, in order
RECURSIVE FilterFrom(_, _, _, _)
FilterFrom(d, source, j, filtered) ==
    IF j > Len(d) THEN filtered
    ELSE FilterFrom(d, source, j + 1,
                    IF d[j].source # source THEN Append(filtered, d[j]) ELSE filtered)

FilterKeepLast(d, source) ==
    IF d = <<>> THEN <<>>
    ELSE FilterFrom(SubSeq(d, 1, Len(d) - 1), source, 1, <<>>) \o <<d[Len(d)]>>
FilterKeepFirst(d, source) == IF d = <<>> THEN <<>> ELSE <<d[1]>> \o FilterFrom(Tail(d), source, 1, <<>>)
FilterDropLast(d, source) == FilterFrom(SubSeq(d, 1, Len(d) - 1), source, 1, <<>>)
Filter(d, source) == FilterFrom(d, source, 1, <<>>)

CallDelete(p, tags, maxCalls) ==
    /\ pc[p] = "idle"
    /\ calls < maxCalls
    /\ \E t \in tags :
         call' = [call EXCEPT ![p] = [NoCall EXCEPT !.op = "delete", !.sourceName = t]]
    /\ calls' = calls + 1
    /\ pc' = [pc EXCEPT ![p] = "delete"]
    /\ UNCHANGED <<cfg, docs, mu, sp, ap, ret, up, srv>>

\* vs.mu.Lock()
DeleteLock(p) ==
    /\ pc[p] = "delete"
    /\ CanLock
    /\ mu' = Locked(p)
    /\ pc' = [pc EXCEPT ![p] = "filter"]
    /\ UNCHANGED <<cfg, docs, call, sp, ap, ret, calls, up, srv>>

\* vs.docs = filtered
DeleteFilter(p) ==
    /\ pc[p] = "filter"
    /\ docs' = Filter(docs, call[p].sourceName)
    /\ pc' = [pc EXCEPT ![p] = "filtered"]
    /\ UNCHANGED <<cfg, mu, call, sp, ap, ret, calls, up, srv>>

\* return nil, and the deferred vs.mu.Unlock()
DeleteReturn(p) ==
    /\ pc[p] = "filtered"
    /\ mu' = Unlocked(p)
    /\ ret' = [ret EXCEPT ![p] = [NoRet EXCEPT !.op = "delete"]]
    /\ pc' = [pc EXCEPT ![p] = "idle"]
    /\ UNCHANGED <<cfg, docs, call, sp, ap, calls, up, srv>>

-----------------------------------------------------------------------------
(* GetStats *)

CallStats(p, maxCalls) ==
    /\ pc[p] = "idle"
    /\ calls < maxCalls
    /\ call' = [call EXCEPT ![p] = [NoCall EXCEPT !.op = "stats"]]
    /\ calls' = calls + 1
    /\ pc' = [pc EXCEPT ![p] = "stats"]
    /\ UNCHANGED <<cfg, docs, mu, sp, ap, ret, up, srv>>

\* vs.mu.RLock()
StatsLock(p) ==
    /\ pc[p] = "stats"
    /\ CanRLock
    /\ mu' = RLocked(p)
    /\ pc' = [pc EXCEPT ![p] = "counting"]
    /\ UNCHANGED <<cfg, docs, call, sp, ap, ret, calls, up, srv>>

\* TotalDocuments: len(vs.docs), and the deferred vs.mu.RUnlock()
StatsReturn(p) ==
    /\ pc[p] = "counting"
    /\ mu' = RUnlocked(p)
    /\ ret' = [ret EXCEPT ![p] = [NoRet EXCEPT !.op = "stats", !.total = Len(docs)]]
    /\ pc' = [pc EXCEPT ![p] = "idle"]
    /\ UNCHANGED <<cfg, docs, call, sp, ap, calls, up, srv>>

-----------------------------------------------------------------------------
(* SimilaritySearch *)

DefaultNumDocs == 5

ResolveNumDocs(numDocs) == IF numDocs <= 0 THEN DefaultNumDocs ELSE numDocs

\* strings.ToLower on the runes used here
ToLower(s) == [j \in 1..Len(s) |-> IF s[j] >= 65 /\ s[j] <= 90 THEN s[j] + 32 ELSE s[j]]

ContainsNonEmpty(s, sub) ==
    sub # <<>> /\ \E o \in 0..(Len(s) - Len(sub)) : SubSeq(s, o + 1, o + Len(sub)) = sub

\* strings.Contains; the empty string is contained in every string
Contains(s, sub) ==
    \E o \in 0..(Len(s) - Len(sub)) : SubSeq(s, o + 1, o + Len(sub)) = sub

\* strings.ContainsRune
ContainsRune(s, r) == \E j \in 1..Len(s) : s[j] = r

\* len(word): the number of bytes of the UTF-8 encoding
Utf8Len(r) == IF r < 128 THEN 1 ELSE IF r < 2048 THEN 2 ELSE IF r < 65536 THEN 3 ELSE 4

RECURSIVE ByteLen(_)
ByteLen(s) == IF s = <<>> THEN 0 ELSE Utf8Len(Head(s)) + ByteLen(Tail(s))

\* the six keywords, as rune sequences
questionKeywords ==
    << <<20171, 32461>>, <<20160, 20040>>, <<21861>>,
       <<20869, 23481>>, <<25991, 26723>>, <<35828>> >>

HasKeyword(queryLower) ==
    \E j \in 1..Len(questionKeywords) : Contains(queryLower, questionKeywords[j])

\* 1. the substring bonus
SubstringBonusExact(content, queryLower) == IF content = queryLower THEN 10 ELSE 0
SubstringBonus(content, queryLower) == IF Contains(content, queryLower) THEN 10 ELSE 0

\* 2. the number of query runes (with repeats) that occur in content
matchCount(content, queryRunes) ==
    Cardinality({j \in 1..Len(queryRunes) : ContainsRune(content, queryRunes[j])})

\* 3. the number of query words (with repeats) that earn the word bonus
WordHits(content, queryLower) ==
    LET queryWords == Fields(queryLower)
    IN Cardinality({j \in 1..Len(queryWords) :
                       ByteLen(queryWords[j]) > 2 /\ Contains(content, queryWords[j])})

\* 4. the keyword bonus
KeywordBonus(queryLower) == IF HasKeyword(queryLower) THEN 1 ELSE 0

\* Scores are kept exact as integers: the float64 score times ScoreDen(query).
\* (charMatchRatio * 5.0 is 5 * matchCount / len(queryRunes).)
ScoreDen(query) == IF Len(query) = 0 THEN 1 ELSE Len(query)

Score(doc, query) ==
    LET content    == ToLower(doc.PageContent)
        queryLower == ToLower(query)
    IN ScoreDen(query) * (SubstringBonus(content, queryLower)
                          + 2 * WordHits(content, queryLower)
                          + KeywordBonus(queryLower))
       + 5 * matchCount(content, queryLower)

\* the docScore list: the documents with score > 0, in index order
RECURSIVE ScoresFrom(_, _, _)
ScoresFrom(d, query, j) ==
    IF j > Len(d) THEN <<>>
    ELSE (IF Score(d[j], query) > 0
          THEN <<[doc |-> d[j], score |-> Score(d[j], query)]>> ELSE <<>>)
         \o ScoresFrom(d, query, j + 1)

Swap(s, i, j) == [s EXCEPT ![i] = s[j], ![j] = s[i]]

\* for i { for j := i+1 { if scores[j].score > scores[i].score { swap } } }
RECURSIVE SortInner(_, _, _)
SortInner(s, i, j) ==
    IF j > Len(s) THEN s
    ELSE SortInner(IF s[j].score > s[i].score THEN Swap(s, i, j) ELSE s, i, j + 1)

RECURSIVE SortOuter(_, _)
SortOuter(s, i) ==
    IF i > Len(s) THEN s ELSE SortOuter(SortInner(s, i, i + 1), i + 1)

SortNone(s) == s
SortScores(s) == SortOuter(s, 1)

\* result := make([]Document, 0, n); for i := 0; i < len(result); i++ { append }
RECURSIVE FallbackLoop(_, _, _)
FallbackLoop(result, i, d) ==
    IF i < Len(result) THEN FallbackLoop(Append(result, d[i + 1]), i + 1, d)
    ELSE result

Fallback(d, n) == FallbackLoop(<<>>, 0, d)

TopRepeated(scores, n) == [j \in 1..Min(n, Len(scores)) |-> scores[1].doc]

\* for i := 0; i < len(scores) && i < numDocs; i++ { append(result, scores[i].doc) }
Top(scores, n) == [j \in 1..Min(n, Len(scores)) |-> scores[j].doc]

SearchResult(d, query, numDocs) ==
    LET n      == ResolveNumDocs(numDocs)
        scores == SortScores(ScoresFrom(d, query, 1))
    IN IF Len(d) = 0 THEN <<>>
       ELSE IF Len(scores) = 0 THEN Fallback(d, n)
       ELSE Top(scores, n)

CallSearch(p, queries, limits, maxCalls) ==
    /\ pc[p] = "idle"
    /\ calls < maxCalls
    /\ \E q \in queries, n \in limits :
         call' = [call EXCEPT ![p] = [NoCall EXCEPT !.op = "search",
                                                    !.query = q, !.numDocs = n]]
    /\ calls' = calls + 1
    /\ pc' = [pc EXCEPT ![p] = "search"]
    /\ UNCHANGED <<cfg, docs, mu, sp, ap, ret, up, srv>>

\* vs.mu.RLock()
SearchLock(p) ==
    /\ pc[p] = "search"
    /\ CanRLock
    /\ mu' = RLocked(p)
    /\ pc' = [pc EXCEPT ![p] = "scoring"]
    /\ UNCHANGED <<cfg, docs, call, sp, ap, ret, calls, up, srv>>

\* SearchReturn, had the sort run over vs.docs itself
SearchReturnInPlace(p) ==
    /\ pc[p] = "scoring"
    /\ mu' = RUnlocked(p)
    /\ ret' = [ret EXCEPT ![p] = [NoRet EXCEPT !.op = "search",
                    !.docs = SearchResult(docs, call[p].query, call[p].numDocs)]]
    /\ docs' = LET all == SortScores([j \in 1..Len(docs) |->
                              [doc |-> docs[j], score |-> Score(docs[j], call[p].query)]])
               IN [j \in 1..Len(docs) |-> all[j].doc]
    /\ pc' = [pc EXCEPT ![p] = "idle"]
    /\ UNCHANGED <<cfg, call, sp, ap, calls, up, srv>>

\* scoring, sorting, return result, nil, and the deferred vs.mu.RUnlock()
SearchReturn(p) ==
    /\ pc[p] = "scoring"
    /\ mu' = RUnlocked(p)
    /\ ret' = [ret EXCEPT ![p] = [NoRet EXCEPT !.op = "search",
                    !.docs = SearchResult(docs, call[p].query, call[p].numDocs)]]
    /\ pc' = [pc EXCEPT ![p] = "idle"]
    /\ UNCHANGED <<cfg, docs, call, sp, ap, calls, up, srv>>

-----------------------------------------------------------------------------
(* Server.handleUpload: the steps around its calls of GetStats and IngestText *)

\* source.Name, source.Content, whether ExtractDocument failed (Content is
\* then "Failed to extract: ..."), totalDocsBefore and source.ChunkCount
NoUpload == [stage |-> "none", name |-> "", content |-> <<>>, failed |-> FALSE,
             totalDocsBefore |-> 0, ChunkCount |-> 0]

\* rows of the sources table in insertion order, the sources the restore
\* loop of NewServer has still to visit, whether it is inside IngestText for
\* the first of them, and whether the server has been restarted
NoServer == [sources |-> <<>>, restoring |-> <<>>, busy |-> FALSE, restarted |-> FALSE]

\* fmt.Sprintf("Failed to extract: %v", err), for an err printed as "e"
FailedContent ==
    <<70, 97, 105, 108, 101, 100, 32, 116, 111, 32, 101, 120, 116, 114, 97, 99, 116, 58, 32, 101>>

\* source.Content after ExtractDocument
SourceContent(content, failed) == IF failed THEN FailedContent ELSE content

\* s.store.CreateSource: INSERT INTO sources
CreateSource(id, name, type, content) ==
    [srv EXCEPT !.sources = Append(@, [ID |-> id, Name |-> name, Type |-> type,
                                        Content |-> content])]

\* the source is created; stats, _ := s.vectorStore.GetStats(ctx)
HandleUpload(p, names, texts, maxCalls) ==
    /\ pc[p] = "idle"
    /\ up[p].stage \in {"none", "done"}
    /\ srv.restoring = <<>>
    /\ calls < maxCalls
    /\ \E n \in names, c \in texts, f \in BOOLEAN :
         /\ up' = [up EXCEPT ![p] = [NoUpload EXCEPT !.stage = "statsBefore", !.name = n,
                                                     !.content = c, !.failed = f]]
         /\ srv' = CreateSource(calls + 1, n, "file", SourceContent(c, f))
    /\ calls' = calls + 1
    /\ call' = [call EXCEPT ![p] = [NoCall EXCEPT !.op = "stats"]]
    /\ pc' = [pc EXCEPT ![p] = "stats"]
    /\ UNCHANGED <<cfg, docs, mu, sp, ap, ret>>

\* source.Content != "" && !strings.HasPrefix(source.Content, "Failed to extract")
Ingestible(u) == u.content # <<>> /\ ~u.failed

\* totalDocsBefore := stats.TotalDocuments; s.vectorStore.IngestText(ctx,
\* source.Name, source.Content)
UploadIngest(p) ==
    /\ pc[p] = "idle"
    /\ up[p].stage = "statsBefore"
    /\ Ingestible(up[p])
    /\ up' = [up EXCEPT ![p].stage = "ingest", ![p].totalDocsBefore = ret[p].total]
    /\ call' = [call EXCEPT ![p] = [NoCall EXCEPT !.op = "ingest",
                                                   !.sourceName = up[p].name,
                                                   !.content = up[p].content]]
    /\ sp' = [sp EXCEPT ![p] = NoSplit]
    /\ ap' = [ap EXCEPT ![p] = NoAppend]
    /\ pc' = [pc EXCEPT ![p] = "ingest"]
    /\ UNCHANGED <<cfg, docs, mu, ret, calls, srv>>

\* nothing to ingest: the source is answered with ChunkCount 0
UploadSkip(p) ==
    /\ pc[p] = "idle"
    /\ up[p].stage = "statsBefore"
    /\ ~Ingestible(up[p])
    /\ up' = [up EXCEPT ![p].stage = "done", ![p].totalDocsBefore = ret[p].total]
    /\ UNCHANGED <<cfg, docs, mu, pc, call, sp, ap, ret, calls, srv>>

\* IngestText returned nil; stats, _ = s.vectorStore.GetStats(ctx)
UploadStatsAfter(p) ==
    /\ pc[p] = "idle"
    /\ up[p].stage = "ingest"
    /\ up' = [up EXCEPT ![p].stage = "statsAfter"]
    /\ call' = [call EXCEPT ![p] = [NoCall EXCEPT !.op = "stats"]]
    /\ pc' = [pc EXCEPT ![p] = "stats"]
    /\ UNCHANGED <<cfg, docs, mu, sp, ap, ret, calls, srv>>

\* chunkCount := stats.TotalDocuments - totalDocsBefore;
\* source.ChunkCount = chunkCount; UpdateSourceChunkCount; c.JSON(source)
UploadRespond(p) ==
    /\ pc[p] = "idle"
    /\ up[p].stage = "statsAfter"
    /\ up' = [up EXCEPT ![p].stage = "done",
                        ![p].ChunkCount = ret[p].total - up[p].totalDocsBefore]
    /\ UNCHANGED <<cfg, docs, mu, pc, call, sp, ap, ret, calls, srv>>

-----------------------------------------------------------------------------
(* Server: handleAddSource, handleDeleteSource, handleDeleteNotebook and   *)
(* the restore loop of NewServer; all sources are in one notebook          *)

\* p is not inside a handler and the routes are being served
Serving(p) ==
    /\ pc[p] = "idle"
    /\ up[p].stage \in {"none", "done"}
    /\ srv.restoring = <<>>

\* CreateSource, then IngestText(ctx, source.Name, source.Content) if
\* source.Content != ""
HandleAddSource(p, names, texts, maxCalls) ==
    /\ Serving(p)
    /\ calls < maxCalls
    /\ calls' = calls + 1
    /\ \E n \in names, c \in texts :
         /\ srv' = CreateSource(calls + 1, n, "text", c)
         /\ IF c # <<>>
            THEN /\ call' = [call EXCEPT ![p] = [NoCall EXCEPT !.op = "ingest",
                                                               !.sourceName = n,
                                                               !.content = c]]
                 /\ sp' = [sp EXCEPT ![p] = NoSplit]
                 /\ ap' = [ap EXCEPT ![p] = NoAppend]
                 /\ pc' = [pc EXCEPT ![p] = "ingest"]
            ELSE UNCHANGED <<call, sp, ap, pc>>
    /\ UNCHANGED <<cfg, docs, mu, ret, up>>

\* s.store.DeleteSource(ctx, sourceID): DELETE FROM sources WHERE id = ?
HandleDeleteSource(p, maxCalls) ==
    /\ Serving(p)
    /\ calls < maxCalls
    /\ calls' = calls + 1
    /\ \E x \in 1..Len(srv.sources) :
         srv' = [srv EXCEPT !.sources =
                    SelectSeq(@, LAMBDA r : r.ID # srv.sources[x].ID)]
    /\ UNCHANGED <<cfg, docs, mu, pc, call, sp, ap, ret, up>>

\* s.store.DeleteNotebook(ctx, id): the notebook's sources go with it
\* (ON DELETE CASCADE)
HandleDeleteNotebook(p, maxCalls) ==
    /\ Serving(p)
    /\ calls < maxCalls
    /\ calls' = calls + 1
    /\ srv' = [srv EXCEPT !.sources = <<>>]
    /\ UNCHANGED <<cfg, docs, mu, pc, call, sp, ap, ret, up>>

\* ListSources: ORDER BY created_at DESC
RECURSIVE Reverse(_)
Reverse(q) == IF q = <<>> THEN <<>> ELSE Append(Reverse(Tail(q)), Head(q))

\* the process is started again while no request is being served: NewServer
\* builds an empty VectorStore and lists the stored sources
Restart ==
    /\ \A p \in Procs : Serving(p)
    /\ ~srv.restarted
    /\ docs' = <<>>
    /\ mu' = [writer |-> None, readers |-> {}]
    /\ pc' = [p \in Procs |-> "idle"]
    /\ call' = [p \in Procs |-> NoCall]
    /\ sp' = [p \in Procs |-> NoSplit]
    /\ ap' = [p \in Procs |-> NoAppend]
    /\ ret' = [p \in Procs |-> NoRet]
    /\ up' = [p \in Procs |-> NoUpload]
    /\ srv' = [srv EXCEPT !.restoring = Reverse(srv.sources), !.busy = FALSE,
                          !.restarted = TRUE]
    /\ UNCHANGED <<cfg, calls>>

\* if src.Content != "" { vectorStore.IngestText(ctx, src.Name, src.Content) }
RestoreIngest ==
    /\ pc[1] = "idle"
    /\ srv.restoring # <<>>
    /\ ~srv.busy
    /\ Head(srv.restoring).Content # <<>>
    /\ call' = [call EXCEPT ![1] = [NoCall EXCEPT !.op = "ingest",
                                       !.sourceName = Head(srv.restoring).Name,
                                       !.content = Head(srv.restoring).Content]]
    /\ sp' = [sp EXCEPT ![1] = NoSplit]
    /\ ap' = [ap EXCEPT ![1] = NoAppend]
    /\ pc' = [pc EXCEPT ![1] = "ingest"]
    /\ srv' = [srv EXCEPT !.busy = TRUE]
    /\ UNCHANGED <<cfg, docs, mu, ret, calls, up>>

\* the next src of the restore loop
RestoreAdvance ==
    /\ pc[1] = "idle"
    /\ srv.restoring # <<>>
    /\ srv.busy \/ Head(srv.restoring).Content = <<>>
    /\ srv' = [srv EXCEPT !.restoring = Tail(@), !.busy = FALSE]
    /\ UNCHANGED <<cfg, docs, mu, pc, call, sp, ap, ret, calls, up>>

-----------------------------------------------------------------------------
(* splitText on its own: every text and every configuration *)

SplitAlphabet == {97, 32, 20013}
SplitTexts == StrUpTo(SplitAlphabet, MaxLen)
SplitCfgs == [ChunkSize : -1..MaxCfg, ChunkOverlap : -1..MaxCfg]

InitWith(cfgs) ==
    /\ cfg \in cfgs
    /\ docs = <<>>
    /\ mu = [writer |-> None, readers |-> {}]
    /\ pc = [p \in Procs |-> "idle"]
    /\ call = [p \in Procs |-> NoCall]
    /\ sp = [p \in Procs |-> NoSplit]
    /\ ap = [p \in Procs |-> NoAppend]
    /\ ret = [p \in Procs |-> NoRet]
    /\ calls = 0
    /\ up = [p \in Procs |-> NoUpload]
    /\ srv = NoServer

InitSplit == InitWith(SplitCfgs)

NextSplit ==
    \/ CallIngest(1, {"s1"}, SplitTexts, 1)
    \/ SplitStart(1)
    \/ SplitExit(1)
    \/ SplitPanic(1)
    \/ SplitEmit(1)
    \/ IngestLock(1)
    \/ IngestRead(1)
    \/ IngestStore(1)
    \/ IngestReturn(1)

SpecSplit == InitSplit /\ [][NextSplit]_vars

\* a running call is scheduled until it returns
FairSpecSplit == SpecSplit /\ WF_vars(NextSplit)

-----------------------------------------------------------------------------
(* SimilaritySearch over an index built by one IngestText *)

TextAlphabet == {97, 65, 32}
QueryAlphabet == {97, 98, 65, 32, 35828}
MaxText == 3
MaxQuery == 2
MaxLimit == 2

SearchTexts == StrUpTo(TextAlphabet, MaxText)
SearchQueries == StrUpTo(QueryAlphabet, MaxQuery)
SearchLimits == 0..MaxLimit
SearchCfgs == {[ChunkSize |-> 1, ChunkOverlap |-> 0], [ChunkSize |-> 2, ChunkOverlap |-> 1]}

InitSearch == InitWith(SearchCfgs)

NextSearch ==
    \/ CallIngest(1, {"s1"}, SearchTexts, 1)
    \/ SplitStart(1)
    \/ SplitExit(1)
    \/ SplitEmit(1)
    \/ IngestLock(1)
    \/ IngestRead(1)
    \/ IngestStore(1)
    \/ IngestReturn(1)
    \/ CallSearch(1, SearchQueries, SearchLimits, 2)
    \/ SearchLock(1)
    \/ SearchReturn(1)

SpecSearch == InitSearch /\ [][NextSearch]_vars

-----------------------------------------------------------------------------
(* SimilaritySearch over an index of a few words:                          *)
(* "ab", "Abc", U+4E2D and U+8BF4, joined by single spaces                 *)

Words == {<<97, 98>>, <<65, 98, 99>>, <<20013>>, <<35828>>}
MaxWords == 3
MaxQWords == 2

WordTexts == {Join(ws) : ws \in StrUpTo(Words, MaxWords)}
WordQueries == {Join(ws) : ws \in StrUpTo(Words, MaxQWords)}

InitWords == InitWith(SearchCfgs)

NextWords ==
    \/ CallIngest(1, {"s1"}, WordTexts, 1)
    \/ SplitStart(1)
    \/ SplitExit(1)
    \/ SplitEmit(1)
    \/ IngestLock(1)
    \/ IngestRead(1)
    \/ IngestStore(1)
    \/ IngestReturn(1)
    \/ CallSearch(1, WordQueries, SearchLimits, 2)
    \/ SearchLock(1)
    \/ SearchReturn(1)

SpecWords == InitWords /\ [][NextWords]_vars

-----------------------------------------------------------------------------
(* splitText on texts around the cjkRatio threshold: a run of runes at the *)
(* two ends of the CJK range (U+4E00, U+9FFF) followed by runes outside it *)
(* (U+A000 and the space)                                                  *)

MaxCJK == 3
MaxRest == 7

CJKRun(c) == [j \in 1..c |-> IF j % 2 = 1 THEN 19968 ELSE 40959]
RouteTexts == {CJKRun(c) \o t : c \in 0..MaxCJK, t \in StrUpTo({40960, 32}, MaxRest)}
RouteCfgs == {[ChunkSize |-> 0, ChunkOverlap |-> -1], [ChunkSize |-> 2, ChunkOverlap |-> 1]}

InitRoute == InitWith(RouteCfgs)

NextRoute ==
    \/ CallIngest(1, {"s1"}, RouteTexts, 1)
    \/ SplitStart(1)
    \/ SplitExit(1)
    \/ SplitEmit(1)
    \/ IngestLock(1)
    \/ IngestRead(1)
    \/ IngestStore(1)
    \/ IngestReturn(1)

SpecRoute == InitRoute /\ [][NextRoute]_vars

-----------------------------------------------------------------------------
(* Concurrent uploads served by one store *)

UploadNames == {"f1", "f2"}
UploadTexts == {<<>>, <<32>>, <<97, 32, 98>>}

UploadCfgs == {[ChunkSize |-> 1, ChunkOverlap |-> 0]}

InitUpload == InitWith(UploadCfgs)

NextUpload ==
    \E p \in Procs :
        \/ HandleUpload(p, UploadNames, UploadTexts, 2)
        \/ StatsLock(p)
        \/ StatsReturn(p)
        \/ UploadIngest(p)
        \/ UploadSkip(p)
        \/ SplitStart(p)
        \/ SplitExit(p)
        \/ SplitEmit(p)
        \/ IngestLock(p)
        \/ IngestRead(p)
        \/ IngestStore(p)
        \/ IngestReturn(p)
        \/ UploadStatsAfter(p)
        \/ UploadRespond(p)

SpecUpload == InitUpload /\ [][NextUpload]_vars

-----------------------------------------------------------------------------
(* One IngestText of the first words of a sentence, then SimilaritySearch  *)
(* for one of its words, with ChunkSize 5 and ChunkOverlap 1               *)

\* "the quick brown fox jumps over the lazy dog"
Sentence ==
    <<116, 104, 101, 32, 113, 117, 105, 99, 107, 32, 98, 114,
      111, 119, 110, 32, 102, 111, 120, 32, 106, 117, 109, 112,
      115, 32, 111, 118, 101, 114, 32, 116, 104, 101, 32, 108,
      97, 122, 121, 32, 100, 111, 103>>
\* "fox"
Fox == <<102, 111, 120>>

SentenceTexts == {Join(SubSeq(Fields(Sentence), 1, n)) : n \in 0..Len(Fields(Sentence))}
SentenceQueries == {Fields(Sentence)[j] : j \in 1..Len(Fields(Sentence))}
SentenceLimits == {1, 5}
SentenceCfgs == {[ChunkSize |-> 5, ChunkOverlap |-> 1]}

InitSentence == InitWith(SentenceCfgs)

NextSentence ==
    \/ CallIngest(1, {"doc1"}, SentenceTexts, 1)
    \/ SplitStart(1)
    \/ SplitExit(1)
    \/ SplitEmit(1)
    \/ IngestLock(1)
    \/ IngestRead(1)
    \/ IngestStore(1)
    \/ IngestReturn(1)
    \/ CallSearch(1, SentenceQueries, SentenceLimits, 2)
    \/ SearchLock(1)
    \/ SearchReturn(1)

SpecSentence == InitSentence /\ [][NextSentence]_vars

-----------------------------------------------------------------------------
(* Concurrent IngestText calls with empty and whitespace-only texts *)

BlankTexts == {<<>>, <<32>>, <<10, 32>>, <<97>>}

InitBlank == InitWith(UploadCfgs)

NextBlank ==
    \E p \in Procs :
        \/ CallIngest(p, {"s1", "s2"}, BlankTexts, 3)
        \/ SplitStart(p)
        \/ SplitExit(p)
        \/ SplitEmit(p)
        \/ IngestLock(p)
        \/ IngestRead(p)
        \/ IngestStore(p)
        \/ IngestReturn(p)

SpecBlank == InitBlank /\ [][NextBlank]_vars

-----------------------------------------------------------------------------
(* Concurrent callers of one store *)

Tags == {"s1", "s2"}
Texts == {<<32>>, <<97, 32, 98>>}
Queries == {<<97>>, <<99>>}
Limits == {1}
Cfgs == {[ChunkSize |-> 1, ChunkOverlap |-> 0]}

Init == InitWith(Cfgs)

Next ==
    \E p \in Procs :
        \/ CallIngest(p, Tags, Texts, MaxCalls)
        \/ SplitStart(p)
        \/ SplitExit(p)
        \/ SplitEmit(p)
        \/ IngestLock(p)
        \/ IngestRead(p)
        \/ IngestStore(p)
        \/ IngestReturn(p)
        \/ CallDelete(p, Tags, MaxCalls)
        \/ DeleteLock(p)
        \/ DeleteFilter(p)
        \/ DeleteReturn(p)
        \/ CallSearch(p, Queries, Limits, MaxCalls)
        \/ SearchLock(p)
        \/ SearchReturn(p)
        \/ CallStats(p, MaxCalls)
        \/ StatsLock(p)
        \/ StatsReturn(p)

Spec == Init /\ [][Next]_vars

-----------------------------------------------------------------------------
(* Concurrent callers under fair scheduling.  Every goroutine that can run *)
(* a step that needs no lock eventually runs it (weak fairness); a         *)
(* goroutine blocked in Lock or RLock is queued by sync.RWMutex and gets   *)
(* the mutex when it is free again and again (strong fairness).  Nothing   *)
(* makes a client start a call; three calls are started in all.            *)

LockTags == {"s1"}
LockTexts == {<<32>>, <<97>>}
LockQueries == {<<97>>}

InitLock == InitWith(Cfgs)

NextLock ==
    \E p \in Procs :
        \/ CallIngest(p, LockTags, LockTexts, 3)
        \/ SplitStart(p)
        \/ SplitExit(p)
        \/ SplitEmit(p)
        \/ IngestLock(p)
        \/ IngestRead(p)
        \/ IngestStore(p)
        \/ IngestReturn(p)
        \/ CallDelete(p, LockTags, 3)
        \/ DeleteLock(p)
        \/ DeleteFilter(p)
        \/ DeleteReturn(p)
        \/ CallSearch(p, LockQueries, Limits, 3)
        \/ SearchLock(p)
        \/ SearchReturn(p)
        \/ CallStats(p, 3)
        \/ StatsLock(p)
        \/ StatsReturn(p)

\* vs.mu.Lock() or vs.mu.RLock() of the call p is running
Acquire(p) == IngestLock(p) \/ DeleteLock(p) \/ SearchLock(p) \/ StatsLock(p)

\* any other step of the call p is running
Proceed(p) ==
    \/ SplitStart(p) \/ SplitExit(p) \/ SplitEmit(p)
    \/ IngestRead(p) \/ IngestStore(p) \/ IngestReturn(p)
    \/ DeleteFilter(p) \/ DeleteReturn(p)
    \/ SearchReturn(p)
    \/ StatsReturn(p)

FairSpecLock ==
    /\ InitLock
    /\ [][NextLock]_vars
    /\ \A p \in Procs : WF_vars(Proceed(p)) /\ SF_vars(Acquire(p))

-----------------------------------------------------------------------------
(* One IngestText, then Delete, then SimilaritySearch *)

RemoveTexts == {<<>>, <<32>>, <<97>>, <<97, 32, 65>>}

InitRemove == InitWith(UploadCfgs)

NextRemove ==
    \/ CallIngest(1, {"s1"}, RemoveTexts, 1)
    \/ SplitStart(1)
    \/ SplitExit(1)
    \/ SplitEmit(1)
    \/ IngestLock(1)
    \/ IngestRead(1)
    \/ IngestStore(1)
    \/ IngestReturn(1)
    \/ CallDelete(1, {"s1", "s2"}, 2)
    \/ DeleteLock(1)
    \/ DeleteFilter(1)
    \/ DeleteReturn(1)
    \/ CallSearch(1, SearchQueries, SearchLimits, 3)
    \/ SearchLock(1)
    \/ SearchReturn(1)

SpecRemove == InitRemove /\ [][NextRemove]_vars

-----------------------------------------------------------------------------
(* Requests served one at a time: sources are added, deleted, searched *)

ServerNames == {"s1", "s2"}
ServerTexts == {<<>>, <<32>>, <<97>>, <<97, 32, 98>>}
ServerQueries == {<<97>>, <<98>>}
ServerLimits == {0, 1}

InitDelete == InitWith(UploadCfgs)

NextDelete ==
    \/ HandleAddSource(1, ServerNames, ServerTexts, 2)
    \/ SplitStart(1)
    \/ SplitExit(1)
    \/ SplitEmit(1)
    \/ IngestLock(1)
    \/ IngestRead(1)
    \/ IngestStore(1)
    \/ IngestReturn(1)
    \/ HandleDeleteSource(1, 3)
    \/ HandleDeleteNotebook(1, 3)
    \/ CallSearch(1, ServerQueries, ServerLimits, 4)
    \/ SearchLock(1)
    \/ SearchReturn(1)

SpecDelete == InitDelete /\ [][NextDelete]_vars

-----------------------------------------------------------------------------
(* Sources are added and uploaded, then the server is restarted *)

InitRestart == InitWith(UploadCfgs)

NextRestart ==
    \/ HandleAddSource(1, ServerNames, ServerTexts, 2)
    \/ HandleUpload(1, ServerNames, ServerTexts, 2)
    \/ StatsLock(1)
    \/ StatsReturn(1)
    \/ UploadIngest(1)
    \/ UploadSkip(1)
    \/ UploadStatsAfter(1)
    \/ UploadRespond(1)
    \/ SplitStart(1)
    \/ SplitExit(1)
    \/ SplitEmit(1)
    \/ IngestLock(1)
    \/ IngestRead(1)
    \/ IngestStore(1)
    \/ IngestReturn(1)
    \/ Restart
    \/ RestoreIngest
    \/ RestoreAdvance

SpecRestart == InitRestart /\ [][NextRestart]_vars

-----------------------------------------------------------------------------
(* Properties *)

\* the step in which p's SimilaritySearch computes its result and returns
SearchReturns(p) == pc[p] = "scoring" /\ pc'[p] = "idle"

NoneScores(d, query) == \A j \in 1..Len(d) : Score(d[j], query) = 0

\* C1: on an index of N > 0 chunks none of which scores above 0, Search
\* returns the first min(k, N) chunks of the index, k the resolved limit.
C1_FallbackReturnsPrefix ==
    [][\A p \in Procs :
          (SearchReturns(p) /\ Len(docs) > 0 /\ NoneScores(docs, call[p].query))
          => ret'[p].docs =
               SubSeq(docs, 1, Min(ResolveNumDocs(call[p].numDocs), Len(docs)))]_vars

Degenerate == ResolveOverlap(cfg.ChunkOverlap) >= ResolveSize(cfg.ChunkSize)

\* C2: when the resolved chunkOverlap is >= the resolved chunkSize, Ingest
\* never enters the windowing loop, returns a configuration error, and
\* leaves the index as it was (empty, under SpecSplit).
C2_ConfigErrorBeforeLoop ==
    Degenerate =>
        /\ \A p \in Procs : pc[p] \notin {"split", "lock", "append", "store", "panic"}
        /\ \A p \in Procs : ret[p].op = "ingest" => ret[p].err # "nil"
        /\ docs = <<>>

\* C3: the windowing loop of every Ingest call is left after finitely many
\* iterations, whatever the text and the configured chunkSize and chunkOverlap.
C3_SplitTerminates ==
    \A p \in Procs : (pc[p] = "split") ~> (pc[p] # "split")

\* splitText has returned its chunks to IngestText
SplitDone(p) == pc[p] = "lock"

ValidCfg(p) == 0 <= sp[p].chunkOverlap /\ sp[p].chunkOverlap < sp[p].chunkSize

CeilDiv(a, b) == (a + b - 1) \div b

ClaimedCount(L, S, O) ==
    IF L > 0 THEN CeilDiv(IF L - O > 0 THEN L - O ELSE 0, S - O) ELSE 0

\* C4 as claimed: with 0 <= O < S, split returns ceil(max(L - O, 0) / (S - O))
\* chunks when L > 0, and none when L = 0.
C4_ChunkCountClaimed ==
    \A p \in Procs :
        (SplitDone(p) /\ ValidCfg(p))
        => Len(sp[p].chunks) =
             ClaimedCount(Len(sp[p].units), sp[p].chunkSize, sp[p].chunkOverlap)

\* C4 as amended: with 0 <= O < S, split returns
\* max(1, ceil(max(L - O, 0) / (S - O))) chunks when L > 0 (so one chunk when
\* 0 < L <= O), and none when L = 0.
C4_ChunkCount ==
    \A p \in Procs :
        (SplitDone(p) /\ ValidCfg(p))
        => LET L == Len(sp[p].units)
               c == ClaimedCount(L, sp[p].chunkSize, sp[p].chunkOverlap)
           IN Len(sp[p].chunks) = IF L > 0 /\ c < 1 THEN 1 ELSE c

C4_Witness ==
    \E p \in Procs :
        /\ SplitDone(p) /\ ValidCfg(p)
        /\ sp[p].chunkOverlap > 0
        /\ Len(sp[p].chunks) >= 3

\* the text of the window [lo, hi) of the units
Window(p, lo, hi) ==
    IF sp[p].byRune THEN SubSeq(sp[p].units, lo + 1, hi)
    ELSE Join(SubSeq(sp[p].units, lo + 1, hi))

\* C5: with 0 <= O < S and L > 0 the chunks are the windows
\* [j*(S-O), min(j*(S-O)+S, L)), j = 0, 1, ...: the first starts at 0, the
\* last ends at L, each starts inside or right after the one before it (no
\* gap), and two consecutive ones share exactly O units.
C5_Coverage ==
    \A p \in Procs :
        (SplitDone(p) /\ ValidCfg(p) /\ Len(sp[p].units) > 0)
        => LET L     == Len(sp[p].units)
               S     == sp[p].chunkSize
               O     == sp[p].chunkOverlap
               n     == Len(sp[p].chunks)
               lo(j) == (j - 1) * (S - O)
               hi(j) == Min(lo(j) + S, L)
           IN /\ n >= 1
              /\ \A j \in 1..n : sp[p].chunks[j] = Window(p, lo(j), hi(j))
              /\ hi(n) = L
              /\ \A j \in 1..(n - 1) :
                    /\ hi(j) < L
                    /\ lo(j + 1) <= hi(j)
                    /\ hi(j) - lo(j + 1) = O
                    /\ hi(j + 1) > hi(j)

C5_Witness ==
    \E p \in Procs :
        /\ SplitDone(p) /\ ValidCfg(p)
        /\ sp[p].chunkOverlap >= 1
        /\ sp[p].byRune
        /\ Len(sp[p].chunks) >= 2
        /\ Len(sp[p].chunks[Len(sp[p].chunks)]) < sp[p].chunkSize

-----------------------------------------------------------------------------
(* Properties of the concurrent callers *)

Idle == \A p \in Procs : pc[p] = "idle"

Ingesters == {p \in Procs : call[p].op = "ingest"}

\* every call made so far is the one IngestText call of its caller, and
\* the callers' source names differ
OnlyDisjointIngests ==
    /\ \A p \in Procs : call[p].op \in {"ingest", "none"}
    /\ calls = Cardinality(Ingesters)
    /\ \A p, q \in Ingesters : p # q => call[p].sourceName # call[q].sourceName

RECURSIVE SumChunks(_)
SumChunks(ps) ==
    IF ps = {} THEN 0
    ELSE LET p == CHOOSE x \in ps : TRUE
         IN Len(sp[p].chunks) + SumChunks(ps \ {p})

OfSource(d, t) == SelectSeq(d, LAMBDA x : x.source = t)

\* C6: once concurrent Ingest calls with distinct source names have all
\* returned, the index holds the chunks of every call, in that call's order
\* (so its size is the sum of their chunk counts), and a Search for a chunk's
\* own text returns a chunk of that call.
C6_NoLostWrites ==
    (Idle /\ OnlyDisjointIngests)
    => /\ Len(docs) = SumChunks(Ingesters)
       /\ \A p \in Ingesters :
             LET mine == OfSource(docs, call[p].sourceName)
             IN /\ Len(mine) = Len(sp[p].chunks)
                /\ \A j \in 1..Len(mine) :
                      /\ mine[j].PageContent = sp[p].chunks[j]
                      /\ mine[j].chunk = j - 1
                      /\ \E x \in DOMAIN SearchResult(docs, sp[p].chunks[j], Len(docs)) :
                            SearchResult(docs, sp[p].chunks[j], Len(docs))[x].source
                              = call[p].sourceName

C6_Witness ==
    /\ Idle /\ OnlyDisjointIngests
    /\ Cardinality(Ingesters) = 2
    /\ \A p \in Ingesters : Len(sp[p].chunks) = 2

InIndexWrite == {p \in Procs : pc[p] \in {"append", "store", "filter", "filtered"}}
InIndexRead == {p \in Procs : pc[p] \in {"scoring", "counting"}}

\* C7: while a Search or Stats call reads the index, no Ingest call has
\* appended some but not all of its chunks.
C7_AtomicIngest ==
    \A r \in InIndexRead : \A w \in Procs :
        pc[w] \in {"append", "store"} => ap[w].i \in {0, Len(sp[w].chunks)}

C7_Witness ==
    \E r \in InIndexRead : \E w \in Procs :
        /\ pc[w] = "lock"
        /\ Len(sp[w].chunks) = 2
        /\ docs # <<>>

\* C8: the index is in use by nobody, or by one mutator and no reader, or by
\* readers only; the mutator's section runs from its first read of vs.docs to
\* its last write.
C8_LockDiscipline ==
    /\ Cardinality(InIndexWrite) <= 1
    /\ InIndexWrite # {} => InIndexRead = {}

C8_Witness ==
    \E w, r \in Procs :
        /\ pc[w] = "store"
        /\ pc[r] \in {"search", "stats", "delete", "lock"}

\* the step in which p's Delete replaces vs.docs
DeleteFilters(p) == pc[p] = "filter" /\ pc'[p] = "filtered"
DeleteReturns(p) == pc[p] = "filtered" /\ pc'[p] = "idle"

HasSource(d, t) == \E j \in 1..Len(d) : d[j].source = t

\* C9: Delete returns nil; a Delete for a source name with no chunk in the
\* index (never ingested, or already removed) leaves vs.docs as it was, and
\* right after any Delete a second one for the same name would change nothing.
C9_RemoveIdempotent ==
    [][\A p \in Procs :
          /\ DeleteReturns(p) => ret'[p].err = "nil"
          /\ (DeleteFilters(p) /\ ~HasSource(docs, call[p].sourceName)) => docs' = docs
          /\ DeleteFilters(p) => ~HasSource(docs', call[p].sourceName)]_vars

C9_Witness ==
    \E p, q \in Procs :
        /\ p # q
        /\ pc[p] = "filtered"
        /\ call[q].op = "delete" /\ pc[q] = "idle" /\ ret[q].op = "delete"
        /\ call[q].sourceName = call[p].sourceName
        /\ docs # <<>>

\* C10: Delete removes the chunks of its source name and no other: what is
\* left is the chunks of the other names, unchanged and in the same order.
C10_RemoveFrame ==
    [][\A p \in Procs :
          DeleteFilters(p)
          => /\ ~HasSource(docs', call[p].sourceName)
             /\ docs' = SelectSeq(docs, LAMBDA x : x.source # call[p].sourceName)]_vars

C10_Witness ==
    \E p, q \in Procs :
        /\ pc[p] = "filtered"
        /\ call[q].op = "ingest" /\ pc[q] = "idle" /\ ret[q].op = "ingest"
        /\ call[q].sourceName = call[p].sourceName
        /\ Len(sp[q].chunks) = 2
        /\ docs # <<>>

-----------------------------------------------------------------------------
(* Order and ordinals of the index *)

\* a is b with some elements left out, the others in b's order
RECURSIVE IsSubSeq(_, _)
IsSubSeq(a, b) ==
    IF a = <<>> THEN TRUE
    ELSE IF b = <<>> THEN FALSE
    ELSE IF Head(a) = Head(b) THEN IsSubSeq(Tail(a), Tail(b))
    ELSE IsSubSeq(a, Tail(b))

IngestReturns(p) == pc[p] = "append" /\ pc'[p] = "idle"

\* C11: every step that changes the index either adds one chunk at its end
\* or leaves out chunks and keeps the others in their order; when an Ingest
\* call returns, its chunks are the last ones of the index, in chunker order.
C11_InsertionOrder ==
    [][/\ docs' # docs =>
            \/ /\ Len(docs') = Len(docs) + 1
               /\ SubSeq(docs', 1, Len(docs)) = docs
            \/ /\ Len(docs') < Len(docs)
               /\ IsSubSeq(docs', docs)
       /\ \A p \in Procs :
            IngestReturns(p) =>
                LET n == Len(sp[p].chunks)
                IN /\ Len(docs) >= n
                   /\ \A j \in 1..n :
                        docs[Len(docs) - n + j].PageContent = sp[p].chunks[j]]_vars

C11_Witness ==
    \E p, q \in Procs :
        /\ pc[p] = "filtered"
        /\ pc[q] = "idle" /\ ret[q].op = "ingest" /\ Len(sp[q].chunks) = 2
        /\ call[q].sourceName # call[p].sourceName
        /\ Len(docs) = 2

Ordinals(d, t) == [j \in 1..Len(OfSource(d, t)) |-> OfSource(d, t)[j].chunk]

\* C12: for each source name, the ordinals of its chunks, in index order, are
\* 0, 1, ..., n-1, also when the name is ingested more than once.
C12_OrdinalsContiguous ==
    \A j \in 1..Len(docs) :
        LET o == Ordinals(docs, docs[j].source)
        IN \A x \in 1..Len(o) : o[x] = x - 1

-----------------------------------------------------------------------------
(* Properties of the ranking *)

InSeq(x, s) == \E j \in 1..Len(s) : s[j] = x

\* the other chunks of the index that score at least as much as chunk j
Rivals(d, query, j) ==
    {i \in 1..Len(d) : i # j /\ Score(d[i], query) >= Score(d[j], query)}

\* C13 as claimed: a chunk of the index whose text contains the query scores
\* at least 10 and is returned by Search for every limit >= 1.
C13_ContainingChunkReturned ==
    [][\A p \in Procs :
          (SearchReturns(p) /\ call[p].numDocs >= 1)
          => \A j \in 1..Len(docs) :
                Contains(docs[j].PageContent, call[p].query)
                => /\ Score(docs[j], call[p].query) >= 10 * ScoreDen(call[p].query)
                   /\ InSeq(docs[j], ret'[p].docs)]_vars

\* C13 as amended: such a chunk scores at least 10, and Search with a limit
\* >= 1 returns it whenever fewer than limit other chunks score at least as
\* much as it does.
C13_ContainingChunkRanked ==
    [][\A p \in Procs :
          (SearchReturns(p) /\ call[p].numDocs >= 1)
          => \A j \in 1..Len(docs) :
                Contains(docs[j].PageContent, call[p].query)
                => /\ Score(docs[j], call[p].query) >= 10 * ScoreDen(call[p].query)
                   /\ Cardinality(Rivals(docs, call[p].query, j)) < call[p].numDocs
                      => InSeq(docs[j], ret'[p].docs)]_vars

C13_Witness ==
    \E p \in Procs :
        /\ pc[p] = "idle" /\ ret[p].op = "search"
        /\ call[p].numDocs = 1 /\ call[p].query # <<>>
        /\ Len(docs) = 3
        /\ ~Contains(docs[1].PageContent, call[p].query)
        /\ Contains(docs[2].PageContent, call[p].query)
        /\ Contains(docs[3].PageContent, call[p].query)
        /\ ret[p].docs = <<docs[2]>>

Candidates(d, query) == {j \in 1..Len(d) : Score(d[j], query) > 0}

\* C14: when some chunk scores above 0, Search returns min(k, c) chunks of
\* the index (k the resolved limit, c the number of chunks scoring above 0),
\* each with a score above 0, in non-increasing score order, and no chunk
\* left out scores more than a returned one.
C14_Ranking ==
    [][\A p \in Procs :
          (SearchReturns(p) /\ Candidates(docs, call[p].query) # {})
          => LET q == call[p].query
                 r == ret'[p].docs
             IN /\ Len(r) = Min(ResolveNumDocs(call[p].numDocs),
                                Cardinality(Candidates(docs, q)))
                /\ \A x \in 1..Len(r) : InSeq(r[x], docs) /\ Score(r[x], q) > 0
                /\ \A x \in 1..(Len(r) - 1) : Score(r[x], q) >= Score(r[x + 1], q)
                /\ \A j \in 1..Len(docs) :
                      ~InSeq(docs[j], r)
                      => \A x \in 1..Len(r) : Score(docs[j], q) <= Score(r[x], q)]_vars

C14_Witness ==
    \E p \in Procs :
        /\ pc[p] = "idle" /\ ret[p].op = "search"
        /\ Len(docs) = 3
        /\ Cardinality(Candidates(docs, call[p].query)) = 3
        /\ Len(ret[p].docs) = 2
        /\ ret[p].docs[1] = docs[3]
        /\ Score(docs[3], call[p].query) > Score(docs[2], call[p].query)
        /\ Score(docs[2], call[p].query) > Score(docs[1], call[p].query)

\* the query words of more than two characters that occur in content
ClaimedWordHits(content, queryLower) ==
    LET queryWords == Fields(queryLower)
    IN Cardinality({j \in 1..Len(queryWords) :
                       Len(queryWords[j]) > 2 /\ Contains(content, queryWords[j])})

\* C15: the word bonus of a chunk is 2.0 for each query word of more than two
\* characters that occurs in the lower-cased chunk text, and nothing else: the
\* score is the substring, coverage and keyword bonuses plus that.
C15_WordBonus ==
    \A p \in Procs :
        pc[p] = "scoring"
        => \A j \in 1..Len(docs) :
              LET content    == ToLower(docs[j].PageContent)
                  queryLower == ToLower(call[p].query)
              IN Score(docs[j], call[p].query) =
                   ScoreDen(call[p].query)
                     * (SubstringBonus(content, queryLower)
                        + 2 * ClaimedWordHits(content, queryLower)
                        + KeywordBonus(queryLower))
                   + 5 * matchCount(content, queryLower)

\* more than 0.3 of the characters of text are in the range 0x4E00-0x9FFF
MostlyCJK(text) == 10 * Len(SelectSeq(text, IsCJK)) > 3 * Len(text)

\* C16: split windows over the characters of the text exactly when more than
\* 0.3 of its characters are in 0x4E00-0x9FFF, and over its
\* whitespace-delimited words otherwise (a ratio of exactly 0.3 included);
\* with a chunk size no smaller than the text, the one chunk is the text
\* itself in the first case and its words joined by spaces in the second.
C16_ScriptRouting ==
    \A p \in Procs :
        pc[p] \in {"split", "lock"}
        => LET text == call[p].content
           IN /\ sp[p].byRune <=> MostlyCJK(text)
              /\ sp[p].units = IF MostlyCJK(text) THEN text ELSE Fields(text)
              /\ (pc[p] = "lock" /\ sp[p].chunkSize >= Len(text) /\ sp[p].units # <<>>)
                 => sp[p].chunks = <<IF MostlyCJK(text) THEN text ELSE Join(Fields(text))>>

C16_Witness ==
    \E p \in Procs :
        /\ pc[p] = "lock"
        /\ Len(call[p].content) = 10
        /\ Len(SelectSeq(call[p].content, IsCJK)) = 3
        /\ ~sp[p].byRune
        /\ Len(sp[p].units) = 4
        /\ sp[p].chunks = <<Join(Fields(call[p].content))>>
        /\ sp[p].chunks # <<call[p].content>>

\* C17: the chunk count stored and reported for an uploaded source that was
\* ingested is the number of chunks its IngestText call appended, whatever
\* other uploads ran at the same time.
C17_ChunkCount ==
    \A p \in Procs :
        (up[p].stage = "done" /\ Ingestible(up[p]))
        => up[p].ChunkCount = Len(sp[p].chunks)

\* C18: every window [i, end) that splitText computes has
\* 0 <= i <= end <= len(units), so no call panics.
C18_NoPanic ==
    \A p \in Procs :
        /\ pc[p] # "panic"
        /\ pc[p] = "split"
           => /\ 0 <= sp[p].i
              /\ sp[p].i < Len(sp[p].units)
                 => sp[p].i <= Min(sp[p].i + sp[p].chunkSize, Len(sp[p].units))

AtLock(p) == pc[p] \in {"lock", "delete", "search", "stats"}
Holds(p) == mu.writer = p \/ p \in mu.readers

\* C19: a call waiting for vs.mu eventually holds it, a call holding it
\* eventually returns, and a caller that has returned holds nothing; whenever
\* a call is pending some pending call can take a step; no step acquires
\* vs.mu for a caller that already holds it.
C19_NoDeadlock ==
    /\ \A p \in Procs : AtLock(p) ~> Holds(p)
    /\ \A p \in Procs : Holds(p) ~> (pc[p] = "idle" /\ ~Holds(p))
    /\ [](\A p \in Procs : pc[p] = "idle" => ~Holds(p))
    /\ []((\E p \in Procs : pc[p] # "idle")
          => \E p \in Procs : ENABLED (Acquire(p) \/ Proceed(p)))
    /\ [][\A p \in Procs :
             /\ (mu'.writer = p /\ mu.writer # p) => ~Holds(p)
             /\ (p \in mu'.readers /\ p \notin mu.readers) => ~Holds(p)]_vars

C19_Witness ==
    \E p, q \in Procs :
        /\ pc[p] = "lock" /\ ~Holds(p)
        /\ pc[q] = "scoring" /\ q \in mu.readers
        /\ calls = 3

\* p is inside SimilaritySearch or GetStats
Reading(p) == pc[p] \in {"search", "scoring", "stats", "counting"}

\* C20: no step of a SimilaritySearch or GetStats call changes vs.docs:
\* the index keeps the same chunks in the same order, whatever the query,
\* the limit and the path taken (empty index, fallback, ranked result).
C20_ReadOnly ==
    [][\A p \in Procs : (Reading(p) /\ pc'[p] # pc[p]) => docs' = docs]_vars

C20_Witness ==
    \E p \in Procs :
        /\ pc[p] = "idle" /\ ret[p].op = "search"
        /\ Len(docs) = 4
        /\ Score(docs[2], call[p].query) < Score(docs[3], call[p].query)
        /\ ret[p].docs = <<docs[1]>>

\* "the quick brown fox jumps" and "jumps over the lazy dog"
SentenceChunks ==
    <<<<116, 104, 101, 32, 113, 117, 105, 99, 107, 32, 98, 114,
        111, 119, 110, 32, 102, 111, 120, 32, 106, 117, 109, 112,
        115>>,
      <<106, 117, 109, 112, 115, 32, 111, 118, 101, 114, 32, 116,
        104, 101, 32, 108, 97, 122, 121, 32, 100, 111, 103>>>>

SentenceDocs == [j \in 1..2 |-> Document(SentenceChunks[j], "doc1", j - 1)]

\* C21: IngestText of the sentence as doc1 with ChunkSize 5, ChunkOverlap 1
\* into the empty index leaves exactly the chunks "the quick brown fox jumps"
\* (ordinal 0) and "jumps over the lazy dog" (ordinal 1); SimilaritySearch of
\* "fox" with limit 5 on that index returns the first of them first, and its
\* score is at least 10.
C21_Scenario ==
    [][\A p \in Procs :
          /\ (IngestReturns(p) /\ call[p].content = Sentence)
             => sp[p].chunks = SentenceChunks /\ docs' = SentenceDocs
          /\ (SearchReturns(p) /\ docs = SentenceDocs
                 /\ call[p].query = Fox /\ call[p].numDocs = 5)
             => /\ Len(ret'[p].docs) >= 1
                /\ ret'[p].docs[1] = SentenceDocs[1]
                /\ Score(SentenceDocs[1], Fox) >= 10 * ScoreDen(Fox)]_vars

C21_Witness ==
    \E p \in Procs :
        /\ pc[p] = "idle" /\ ret[p].op = "search"
        /\ docs = SentenceDocs
        /\ call[p].query = Fox /\ call[p].numDocs = 5
        /\ ret[p].docs = SentenceDocs
        /\ Score(SentenceDocs[1], Fox) > Score(SentenceDocs[2], Fox)
        /\ Score(SentenceDocs[2], Fox) > 0

\* text is empty or has only whitespace
Blank(text) == \A j \in 1..Len(text) : IsSpace(text[j])

\* C22: IngestText of the empty text, or of a text of whitespace only,
\* computes zero chunks, returns nil, and none of its steps changes vs.docs.
C22_EmptyInput ==
    [][\A p \in Procs :
          (call[p].op = "ingest" /\ Blank(call[p].content) /\ pc'[p] # pc[p])
          => /\ docs' = docs
             /\ sp'[p].chunks = <<>>
             /\ IngestReturns(p) => ret'[p].op = "ingest" /\ ret'[p].err = "nil"]_vars

C22_Witness ==
    \E p \in Procs :
        /\ pc[p] = "idle" /\ ret[p].op = "ingest" /\ ret[p].err = "nil"
        /\ call[p].content = <<>>
        /\ Len(docs) = 1
        /\ \E q \in Procs : pc[q] = "idle" /\ ret[q].op = "ingest"
                             /\ call[q].content = <<10, 32>>

\* C23: splitText windows with 1000 in place of a chunkSize <= 0 and 200 in
\* place of a negative chunkOverlap, and with the given values otherwise (a
\* chunkOverlap of 0 stays 0); with a chunkSize <= 0 a text of fewer than 1000
\* units is therefore one chunk.
C23_Defaults ==
    \A p \in Procs :
        pc[p] \in {"split", "lock"}
        => /\ sp[p].chunkSize = IF cfg.ChunkSize <= 0 THEN 1000 ELSE cfg.ChunkSize
           /\ sp[p].chunkOverlap = IF cfg.ChunkOverlap < 0 THEN 200 ELSE cfg.ChunkOverlap
           /\ (pc[p] = "lock" /\ cfg.ChunkSize <= 0 /\ sp[p].units # <<>>)
              => sp[p].chunks = <<Render(sp[p].byRune, sp[p].units, 0, Len(sp[p].units))>>

C23_Witness ==
    \E p \in Procs :
        /\ pc[p] = "lock"
        /\ cfg.ChunkSize = -1 /\ cfg.ChunkOverlap = 0
        /\ sp[p].chunkSize = 1000 /\ sp[p].chunkOverlap = 0
        /\ Len(sp[p].units) = 3 /\ Len(sp[p].chunks) = 1

\* C24: a Delete of the one source all chunks belong to leaves vs.docs empty,
\* and SimilaritySearch on an empty vs.docs returns the empty sequence and a
\* nil error, for every query and every limit.
C24_EmptyIndexSearch ==
    [][\A p \in Procs :
          /\ (DeleteFilters(p) /\ \A j \in 1..Len(docs) : docs[j].source = call[p].sourceName)
             => docs' = <<>>
          /\ (SearchReturns(p) /\ docs = <<>>)
             => ret'[p].docs = <<>> /\ ret'[p].err = "nil"]_vars

C24_Witness ==
    \E p \in Procs :
        /\ pc[p] = "idle" /\ ret[p].op = "search" /\ ret[p].err = "nil"
        /\ calls = 3
        /\ Len(sp[p].chunks) = 2
        /\ docs = <<>>
        /\ ret[p].docs = <<>>
        /\ call[p].query = <<97>> /\ call[p].numDocs = 2

\* chunkSize - chunkOverlap > 0 after the defaults are substituted
PositiveStep ==
    (IF cfg.ChunkSize <= 0 THEN 1000 ELSE cfg.ChunkSize)
      > (IF cfg.ChunkOverlap < 0 THEN 200 ELSE cfg.ChunkOverlap)

\* C25: with a positive step, every chunk splitText emits and every chunk in
\* vs.docs has a non-empty text.
C25_ChunkNonEmpty ==
    PositiveStep
    => /\ \A j \in 1..Len(docs) : docs[j].PageContent # <<>>
       /\ \A p \in Procs : \A j \in 1..Len(sp[p].chunks) : sp[p].chunks[j] # <<>>

C25_Witness ==
    /\ PositiveStep
    /\ Len(docs) = 3
    /\ docs[2].PageContent = <<32>>
    /\ \E p \in Procs : pc[p] = "idle" /\ ret[p].op = "ingest" /\ sp[p].byRune

\* some row of the sources table has this name
Stored(name) == \E x \in 1..Len(srv.sources) : srv.sources[x].Name = name

\* no request is being served and the restore loop is not running
Quiet == \A p \in Procs : Serving(p)

\* C26: a SimilaritySearch returns only chunks of sources that are still in
\* the sources table, and while no request is being served vs.docs holds
\* only chunks of such sources.
C26_NoStaleChunks ==
    /\ [][\A p \in Procs :
             SearchReturns(p)
             => \A x \in 1..Len(ret'[p].docs) : Stored(ret'[p].docs[x].source)]_vars
    /\ [](Quiet => \A j \in 1..Len(docs) : Stored(docs[j].source))

\* "Failed to extract"
FailedPrefix == <<70, 97, 105, 108, 101, 100, 32, 116, 111, 32, 101, 120, 116, 114, 97, 99, 116>>

HasPrefix(str, prefix) ==
    Len(str) >= Len(prefix) /\ SubSeq(str, 1, Len(prefix)) = prefix

\* handleAddSource ingests a source with a non-empty content; handleUpload
\* one with a non-empty content that was extracted
IngestedAtCreation(r) ==
    /\ r.Content # <<>>
    /\ r.Type = "file" => ~HasPrefix(r.Content, FailedPrefix)

SourcesIn(d) == {d[j].source : j \in 1..Len(d)}

\* C27: with no deletions, the restore loop ingests a stored source only if
\* it was ingested when it was created or uploaded, and while no request is
\* being served, before a restart as well as after the restore, the sources
\* with chunks in vs.docs are the stored sources that were ingested at
\* creation and have at least one chunk.
C27_RestartReplay ==
    /\ srv.busy => IngestedAtCreation(Head(srv.restoring))
    /\ Quiet
       => SourcesIn(docs) =
            {srv.sources[x].Name : x \in {y \in 1..Len(srv.sources) :
                /\ IngestedAtCreation(srv.sources[y])
                /\ ~Blank(srv.sources[y].Content)}}

\* the position in d of a chunk that is there once
IndexOf(d, doc) == CHOOSE j \in 1..Len(d) : d[j] = doc

\* C28: chunks of equal score are returned in the order they have in
\* vs.docs: the ranking is a stable sort by descending score.
C28_StableTies ==
    [][\A p \in Procs :
          SearchReturns(p)
          => LET r == ret'[p].docs
             IN \A x, y \in 1..Len(r) :
                   (x < y /\ Score(r[x], call[p].query) = Score(r[y], call[p].query))
                   => IndexOf(docs, r[x]) < IndexOf(docs, r[y])]_vars

\* how many times doc occurs in the sequence q
Occurrences(q, doc) == Cardinality({j \in 1..Len(q) : q[j] = doc})

\* C29: every chunk SimilaritySearch returns is an element of vs.docs as it
\* is when the search runs, text, source and ordinal included, and is
\* returned no more often than it occurs in vs.docs.
C29_ResultsFromIndex ==
    [][\A p \in Procs :
          SearchReturns(p)
          => \A x \in 1..Len(ret'[p].docs) :
                /\ InSeq(ret'[p].docs[x], docs)
                /\ Occurrences(ret'[p].docs, ret'[p].docs[x])
                     <= Occurrences(docs, ret'[p].docs[x])]_vars

C29_Witness ==
    \E p \in Procs :
        /\ pc[p] = "idle" /\ ret[p].op = "search"
        /\ Len(docs) = 3
        /\ Len(ret[p].docs) = 2
        /\ ret[p].docs[1] = docs[2]
        /\ ret[p].docs[2] = docs[3]

\* C30: on a non-empty vs.docs the empty query gives every chunk the score
\* 10 (the substring bonus alone), and SimilaritySearch returns the first
\* min(k, N) chunks in insertion order, k the limit or 5 for a limit <= 0.
C30_EmptyQuery ==
    [][\A p \in Procs :
          (SearchReturns(p) /\ call[p].query = <<>> /\ Len(docs) > 0)
          => /\ \A j \in 1..Len(docs) : Score(docs[j], <<>>) = 10
             /\ ret'[p].docs =
                  SubSeq(docs, 1, Min(IF call[p].numDocs > 0 THEN call[p].numDocs ELSE 5,
                                      Len(docs)))]_vars

C30_Witness ==
    \E p \in Procs :
        /\ pc[p] = "idle" /\ ret[p].op = "search"
        /\ call[p].query = <<>> /\ call[p].numDocs = 2
        /\ Len(docs) = 3
        /\ ret[p].docs = <<docs[1], docs[2]>>

=============================================================================
